---- MODULE Spec2Model ----
(***************************************************************************)
(* Swap submission (useSwapCallback), swap status lookup                   *)
(* (useSwapTransactionStatus) and RPC transport selection                  *)
(* (orderedTransportUrls, createWagmiConfig, defaultOnFetchResponse).      *)
(***************************************************************************)
EXTENDS Integers, Sequences, FiniteSets, TLC

\* Number of submitSwap invocations of a run; they may overlap at every await.
NumCalls == 2
\* Number of entries of the rpcUrls of a chain, over its four tiers.
MaxRpcUrls == 4
\* Number of requests made through the transport of a client.
MaxRequests == 2

Calls == 1..NumCalls

--------------------------------------------------------------------------
(* Values *)

Undefined == "undefined"

ChainA == "evmA"
ChainB == "evmB"
Solana == "solana"
UnsupportedChain == "unsupportedEvm"

\* Chains the wallet can report (account.chainId): the chain of the swap, another
\* supported chain, a chain the interface does not support.
WalletChains == {ChainA, ChainB, UnsupportedChain}
\* Values of useMultichainContext().chainId: none, an EVM chain, a non-EVM chain.
SwapChainIds == {Undefined, ChainA, Solana}
SupportedChains == {ChainA, ChainB, Solana}

NoTrade == "none"
ClassicTrade == "classic"
DutchTrade == "uniswapX"
LimitTrade == "limit"
Trades == {NoTrade, ClassicTrade, DutchTrade, LimitTrade}

NoAddress == ""
Addresses == {NoAddress, "0xA"}

\* The hash the submission of invocation c yields (a transaction or an order hash).
HashOf(c) == "h" \o ToString(c)
Hashes == {HashOf(c) : c \in Calls}

\* TradeFillType
Classic == "Classic"
UniswapX == "UniswapX"
UniswapXv2 == "UniswapXv2"

\* The encoded order and the deadline of the order that invocation c submits.
EncodedOrderOf(c) == "order" \o ToString(c)
DeadlineOf(c) == "deadline" \o ToString(c)

NoResult ==
  [type |-> "none", hash |-> Undefined, orderHash |-> Undefined, encodedOrder |-> Undefined,
   deadline |-> Undefined]
ClassicResults ==
  {[type |-> Classic, hash |-> HashOf(c), orderHash |-> Undefined, encodedOrder |-> Undefined,
    deadline |-> Undefined] : c \in Calls}
UniswapXResults ==
  {[type |-> t, hash |-> Undefined, orderHash |-> HashOf(c), encodedOrder |-> EncodedOrderOf(c),
    deadline |-> DeadlineOf(c)] : t \in {UniswapX, UniswapXv2}, c \in Calls}

\* Messages of the errors useSwapCallback throws.
NoError == ""
MissingTrade == "missing trade"
WalletNotConnected == "wallet must be connected to swap"
MissingChain == "missing swap chainId"
UnsupportedChainFamily == "non EVM chain in legacy limits flow"
ChainSwitchFailed == "wallet must be connected to correct chain to swap"

\* Failures of the submission primitives and of the record write.
SubmitErrors == {"network error", "user rejected signature"}
RecordWriteFailed == "record write failed"

Pending == "pending"
Confirmed == "confirmed"

--------------------------------------------------------------------------
(* Collaborators of useSwapCallback *)

isClassicTrade(trade) == trade = ClassicTrade
isLimitTrade(trade) == trade = LimitTrade
isUniswapXTrade(trade) == trade \in {DutchTrade, LimitTrade}
isEVMChain(chainId) == chainId \in {ChainA, ChainB, UnsupportedChain}
useSupportedChainId(chainId) == IF chainId \in SupportedChains THEN chainId ELSE Undefined

\* Results each submission primitive can resolve with, for invocation c.
PrimitiveResults(primitive, c) ==
  IF primitive = "uniswapX"
    THEN {r \in UniswapXResults : r.orderHash = HashOf(c)}
    ELSE {r \in ClassicResults : r.hash = HashOf(c)}

\* What selectChain(target) can resolve with; Undefined stands for null/false.
SwitchResults == {Undefined, ChainA, ChainB}

--------------------------------------------------------------------------
(* useSwapCallback *)

\* The trade each primitive is given at render: the trade, or none.
uniswapXTradeArg(trade) == IF isUniswapXTrade(trade) THEN trade ELSE NoTrade
classicTradeArg(trade) == IF isClassicTrade(trade) THEN trade ELSE NoTrade

\* swapCallback selecting the classic primitive for a limit order.
swapCallback_ClassicForLimit(trade) == IF trade = DutchTrade THEN "uniswapX" ELSE "classic"

\* swapCallback: the primitive selected at render.
swapCallback(trade) == IF isUniswapXTrade(trade) THEN "uniswapX" ELSE "classic"

\* PreconditionError without its last branch: a non-EVM chain goes on to the switch.
PreconditionError_NoFamilyCheck(trade, isConnected, address, swapChainId) ==
  IF trade = NoTrade THEN MissingTrade
  ELSE IF ~isConnected \/ address = NoAddress THEN WalletNotConnected
  ELSE IF swapChainId = Undefined THEN MissingChain
  ELSE NoError

\* PreconditionError with the wallet checked before the trade.
PreconditionError_WalletFirst(trade, isConnected, address, swapChainId) ==
  IF ~isConnected \/ address = NoAddress THEN WalletNotConnected
  ELSE IF trade = NoTrade THEN MissingTrade
  ELSE IF swapChainId = Undefined THEN MissingChain
  ELSE IF ~isEVMChain(swapChainId) THEN UnsupportedChainFamily
  ELSE NoError

\* The first four branches of the if / else-if chain of the callback.
PreconditionError(trade, isConnected, address, swapChainId) ==
  IF trade = NoTrade THEN MissingTrade
  ELSE IF ~isConnected \/ address = NoAddress THEN WalletNotConnected
  ELSE IF swapChainId = Undefined THEN MissingChain
  ELSE IF ~isEVMChain(swapChainId) THEN UnsupportedChainFamily
  ELSE NoError

\* NeedsSwitch without the comparison with the chain of the swap.
NeedsSwitch_OnlyWhenUnsupported(supportedConnectedChainId, swapChainId) ==
  supportedConnectedChainId = Undefined

\* NeedsSwitch asking for the switch whatever the connected chain.
NeedsSwitch_Always(supportedConnectedChainId, swapChainId) == TRUE

\* The last branch: the connected chain is not the chain of the swap.
NeedsSwitch(supportedConnectedChainId, swapChainId) ==
  supportedConnectedChainId = Undefined \/ supportedConnectedChainId # swapChainId

\* if (!correctChain) throw
SwitchRejected(correctChain) == correctChain = Undefined

\* RecordWrite without the limit-order test: every off-chain result is appended.
RecordWrite_AnyOffChain(result, trade) ==
  IF result.type = Classic THEN <<"add">> ELSE <<"append">>

\* RecordWrite dispatching the limit-order record twice.
RecordWrite_Twice(result, trade) ==
  IF result.type = Classic THEN <<"add">>
  ELSE IF isLimitTrade(trade) THEN <<"append", "append">>
  ELSE <<>>

\* The writes the callback makes for a result, in order: "add"
\* (addClassicTransaction), "append" (dispatch(addTransaction(limitOrderTransaction))).
RecordWrite(result, trade) ==
  IF result.type = Classic THEN <<"add">>
  ELSE IF isLimitTrade(trade) THEN <<"append">>
  ELSE <<>>

\* Propagated with the failure caught and dropped.
Propagated_Swallowed(e) == NoError

\* Propagated with the failure caught and replaced by an error of the callback's own.
Propagated_Wrapped(e) == "swap failed"

\* await swapCallback() is not wrapped: what the primitive throws is what the caller gets.
Propagated(e) == e

\* limitOrderTransaction without the expiry of the order.
limitOrderTransaction_NoExpiry(result, swapChainId, address) ==
  [id |-> result.orderHash, chainId |-> swapChainId, from |-> address,
   status |-> Pending, origin |-> "internal", routing |-> "DUTCH_LIMIT",
   orderHash |-> result.orderHash, queueStatus |-> "submitted",
   encodedOrder |-> result.encodedOrder, expiry |-> Undefined]

\* The record built for a limit order (addedTime and typeInfo left out).
limitOrderTransaction(result, swapChainId, address) ==
  [id |-> result.orderHash, chainId |-> swapChainId, from |-> address,
   status |-> Pending, origin |-> "internal", routing |-> "DUTCH_LIMIT",
   orderHash |-> result.orderHash, queueStatus |-> "submitted",
   encodedOrder |-> result.encodedOrder, expiry |-> result.deadline]

\* The record the transaction-tracking subsystem stores for add(response, ...).
classicTransaction(result, swapChainId, address) ==
  [id |-> result.hash, chainId |-> swapChainId, from |-> address,
   status |-> Pending, origin |-> "internal", routing |-> "CLASSIC",
   orderHash |-> Undefined, queueStatus |-> Undefined,
   encodedOrder |-> Undefined, expiry |-> Undefined]

\* Returned without the deadline of the result.
Returned_NoDeadline(result) == [result EXCEPT !.deadline = Undefined]

\* return result
Returned(result) == result

--------------------------------------------------------------------------
(* State *)

VARIABLES
  walletChain,   \* the chain the wallet is on
  calls,         \* the invocations of the callback
  store,         \* the transaction store, in order of insertion
  swapResult,    \* the argument of useSwapTransactionStatus
  status,        \* what useSwapTransactionStatus returns
  chainInfo,     \* the chain a client is made for: its id and rpcUrls
  transportUrls, \* orderedTransportUrls(chainInfo), once computed
  resolved,      \* whether transportUrls has been computed
  request,       \* the request in flight on the fallback transport
  attempts,      \* the endpoints the request has tried, with what came back
  hookCalls,     \* the calls of onFetchResponse during the request
  requestsMade,  \* requests started so far
  props,         \* the arguments of useSwapCallback at a render
  routerArgs,    \* what the render hands to useUniversalRouterSwapCallback, once rendered
  swapInfo,      \* the swapInfo the callback builds, once built
  providers,     \* the WeakMap of clientToProvider: the provider of a client, if any
  built,         \* the providers constructed so far, with the call that made each
  lastCall       \* the latest call of clientToProvider: arguments, cache before, result

swapVars == <<walletChain, calls>>
statusVars == <<swapResult, status>>
transportVars ==
  <<chainInfo, transportUrls, resolved, request, attempts, hookCalls, requestsMade>>
deriveVars == <<props, routerArgs, swapInfo>>
vars ==
  <<walletChain, calls, store, swapResult, status, chainInfo, transportUrls, resolved,
    request, attempts, hookCalls, requestsMade, props, routerArgs, swapInfo,
    providers, built, lastCall>>
providerVars == <<providers, built, lastCall>>

\* useAccount() as the render that made the callback saw it. chainId is the chain
\* the wallet was on at that render: the wallet may have moved since.
Accounts == [isConnected : BOOLEAN, address : Addresses, chainId : WalletChains]

\* The checks of the callback that the inputs of an invocation do not pass.
FailingChecks(trade, isConnected, address, swapChainId) ==
  {k \in {"trade", "wallet", "chain", "family"} :
     \/ k = "trade" /\ trade = NoTrade
     \/ k = "wallet" /\ ~(isConnected /\ address # NoAddress)
     \/ k = "chain" /\ swapChainId = Undefined
     \/ k = "family" /\ swapChainId # Undefined /\ ~isEVMChain(swapChainId)}

IdleCall ==
  [pc |-> "idle", err |-> NoError, trade |-> NoTrade, swapChainId |-> Undefined,
   from |-> NoAddress, failing |-> {}, mismatch |-> FALSE, correctChain |-> Undefined,
   result |-> NoResult, returned |-> NoResult, thrown |-> NoError, log |-> <<>>]

StatusIdle ==
  /\ swapResult = NoResult
  /\ status = Undefined

\* rpcUrls tiers, in the order orderedTransportUrls reads them.
TierNames == <<"interface", "default", "public", "fallback">>
NoTier == [defined |-> FALSE, http |-> <<>>]
NoRpcUrls == [t \in {TierNames[k] : k \in DOMAIN TierNames} |-> NoTier]
MainnetId == "mainnet"
SepoliaId == "sepolia"
NoResponse == [received |-> FALSE, status |-> 0, wellFormed |-> FALSE]
IdleRequest == [state |-> "idle", next |-> 0, response |-> NoResponse]

\* A trade as the hook reads it: variant, tradeType, raw amounts, swapFee (none, or one).
NoSwapFee == <<>>
NoTradeProps ==
  [variant |-> NoTrade, tradeType |-> "EXACT_INPUT", inputAmount |-> 0, outputAmount |-> 0,
   swapFee |-> NoSwapFee]
\* No render of the hook yet.
DeriveIdle ==
  /\ props = [trade |-> NoTradeProps, allowedSlippage |-> <<0, 1>>, permitSignature |-> Undefined]
  /\ routerArgs = <<>>
  /\ swapInfo = <<>>

\* A value that may be absent: <<>> for undefined, <<v>> for v.
None == <<>>
\* The client objects of a run: id is the identity of the object; chain (id, name,
\* contracts?.ensRegistry?.address) may be absent.
Clients ==
  {[id |-> "mainnetClient", chain |-> <<[id |-> 1, name |-> "Ethereum", ensRegistry |-> "0xENS"]>>,
    transport |-> "transport1"],
   [id |-> "optimismClient",
    chain |-> <<[id |-> 10, name |-> "OP Mainnet", ensRegistry |-> Undefined]>>,
    transport |-> "transport2"],
   [id |-> "connectorClient", chain |-> None, transport |-> "transport3"]}
NoCall == [client |-> None, chainId |-> None, before |-> None, returned |-> None]
\* No call of clientToProvider yet: the WeakMap is empty.
ProvidersIdle ==
  /\ providers = [client \in Clients |-> None]
  /\ built = <<>>
  /\ lastCall = NoCall

SwapIdle ==
  /\ walletChain = ChainA
  /\ calls = [c \in Calls |-> IdleCall]
  /\ store = <<>>

TransportIdle ==
  /\ chainInfo = [id |-> MainnetId, rpcUrls |-> NoRpcUrls]
  /\ transportUrls = <<>>
  /\ resolved = FALSE
  /\ request = IdleRequest
  /\ attempts = <<>>
  /\ hookCalls = <<>>
  /\ requestsMade = 0

Init ==
  /\ walletChain \in WalletChains
  /\ calls = [c \in Calls |-> IdleCall]
  /\ store = <<>>
  /\ StatusIdle
  /\ TransportIdle
  /\ DeriveIdle
  /\ ProvidersIdle

\* The user (or another dapp) moves the wallet to another chain.
WalletChange(ch) ==
  /\ ch # walletChain
  /\ walletChain' = ch
  /\ UNCHANGED <<providerVars, deriveVars, calls, store, statusVars, transportVars>>

\* The callback runs up to its first await.
Invoke(c, trade, account, swapChainId) ==
  /\ calls[c].pc = "idle"
  /\ \A d \in Calls : d < c => calls[d].pc # "idle"
  /\ LET e == PreconditionError(trade, account.isConnected, account.address, swapChainId)
         supportedConnectedChainId == useSupportedChainId(account.chainId)
         seen == [IdleCall EXCEPT !.failing =
                    FailingChecks(trade, account.isConnected, account.address, swapChainId)]
         passed == [seen EXCEPT !.trade = trade, !.swapChainId = swapChainId,
                                !.from = account.address,
                                !.mismatch = (account.chainId # swapChainId)]
     IN calls' = [calls EXCEPT ![c] =
          IF e # NoError
            THEN [seen EXCEPT !.pc = "failed", !.err = e, !.log = <<"throw">>]
          ELSE IF NeedsSwitch(supportedConnectedChainId, swapChainId)
            THEN [passed EXCEPT !.pc = "switching", !.log = <<"selectChain">>]
          ELSE [passed EXCEPT !.pc = "submitting", !.log = <<swapCallback(trade)>>]]
  /\ UNCHANGED <<providerVars, deriveVars, walletChain, store, statusVars, transportVars>>

\* selectChain resolves; the callback goes on to its next await.
SwitchResolve(c, correctChain) ==
  /\ calls[c].pc = "switching"
  /\ walletChain' = IF correctChain = Undefined THEN walletChain ELSE correctChain
  /\ calls' = [calls EXCEPT ![c] =
       IF SwitchRejected(correctChain)
         THEN [@ EXCEPT !.pc = "failed", !.err = ChainSwitchFailed,
                        !.correctChain = correctChain,
                        !.log = @ \o <<"selectChain done", "throw">>]
         ELSE [@ EXCEPT !.pc = "submitting", !.correctChain = correctChain,
                        !.log = @ \o <<"selectChain done", swapCallback(calls[c].trade)>>]]
  /\ UNCHANGED <<providerVars, deriveVars, store, statusVars, transportVars>>

\* The submission primitive rejects.
SubmitReject(c, e) ==
  /\ calls[c].pc = "submitting"
  /\ calls' = [calls EXCEPT ![c] =
       [@ EXCEPT !.pc = "failed", !.err = Propagated(e), !.thrown = e,
                 !.log = @ \o <<"submit failed", "throw">>]]
  /\ UNCHANGED <<providerVars, deriveVars, walletChain, store, statusVars, transportVars>>

\* The record a write of kind w stores.
RecordOf(w, result, swapChainId, address) ==
  IF w = "add" THEN classicTransaction(result, swapChainId, address)
  ELSE limitOrderTransaction(result, swapChainId, address)

\* The submission primitive resolves; the callback writes the record and returns.
\* writeOk: whether the writes go through (a write that throws stores nothing).
SubmitResolve(c, result, writeOk) ==
  /\ calls[c].pc = "submitting"
  /\ result \in PrimitiveResults(swapCallback(calls[c].trade), c)
  /\ LET ws == RecordWrite(result, calls[c].trade)
         recs == [i \in 1..Len(ws) |->
                   RecordOf(ws[i], result, calls[c].swapChainId, calls[c].from)]
     IN IF writeOk
          THEN /\ calls' = [calls EXCEPT ![c] =
                    [@ EXCEPT !.pc = "done", !.result = result,
                              !.returned = Returned(result),
                              !.log = @ \o <<"submit ok">> \o ws \o <<"return">>]]
               /\ store' = store \o recs
          ELSE /\ ws # <<>>
               /\ calls' = [calls EXCEPT ![c] =
                    [@ EXCEPT !.pc = "failed", !.err = Propagated(RecordWriteFailed),
                              !.result = result,
                              !.log = @ \o <<"submit ok", ws[1], "throw">>]]
               /\ store' = store
  /\ UNCHANGED <<providerVars, deriveVars, walletChain, statusVars, transportVars>>

Next ==
  \/ \E ch \in WalletChains : WalletChange(ch)
  \/ \E c \in Calls, trade \in Trades, account \in Accounts, swapChainId \in SwapChainIds :
       Invoke(c, trade, account, swapChainId)
  \/ \E c \in Calls, correctChain \in SwitchResults : SwitchResolve(c, correctChain)
  \/ \E c \in Calls, e \in SubmitErrors : SubmitReject(c, e)
  \/ \E c \in Calls, result \in ClassicResults \cup UniswapXResults, writeOk \in BOOLEAN :
       SubmitResolve(c, result, writeOk)

Spec == Init /\ [][Next]_vars

--------------------------------------------------------------------------
(* useSwapTransactionStatus *)

\* useTransaction(hash): the records of the store under the hash (none, or one).
useTransaction(hash, st) ==
  IF hash = Undefined THEN {} ELSE {st[i] : i \in {j \in DOMAIN st : st[j].id = hash}}

\* useSwapTransactionStatus looking a non-classic result up by its order hash.
useSwapTransactionStatus_AnyHash(result, st) ==
  LET transaction ==
        useTransaction(IF result.type = Classic THEN result.hash ELSE result.orderHash, st)
  IN IF transaction = {} THEN Undefined ELSE (CHOOSE t \in transaction : TRUE).status

useSwapTransactionStatus(result, st) ==
  LET transaction == useTransaction(IF result.type = Classic THEN result.hash ELSE Undefined, st)
  IN IF transaction = {} THEN Undefined ELSE (CHOOSE t \in transaction : TRUE).status

StoredIds == {store[i].id : i \in DOMAIN store}

\* The hook runs again whenever its argument or the store changes.
Rerender == status' = useSwapTransactionStatus(swapResult', store')

\* The component is given a swap result (or none).
SetSwapResult(result) ==
  /\ result # swapResult
  /\ swapResult' = result
  /\ store' = store
  /\ Rerender
  /\ UNCHANGED <<providerVars, deriveVars, swapVars, transportVars>>

\* The tracking subsystem records a classic transaction.
TrackerAdd(result) ==
  /\ result.hash \notin StoredIds
  /\ store' = Append(store, classicTransaction(result, ChainA, "0xA"))
  /\ swapResult' = swapResult
  /\ Rerender
  /\ UNCHANGED <<providerVars, deriveVars, swapVars, transportVars>>

\* A limit order is recorded under its order hash.
LimitOrderAdd(result) ==
  /\ result.orderHash \notin StoredIds
  /\ store' = Append(store, limitOrderTransaction(result, ChainA, "0xA"))
  /\ swapResult' = swapResult
  /\ Rerender
  /\ UNCHANGED <<providerVars, deriveVars, swapVars, transportVars>>

\* The tracking subsystem confirms a pending record.
TrackerUpdate(i) ==
  /\ i \in DOMAIN store
  /\ store[i].status = Pending
  /\ store' = [store EXCEPT ![i].status = Confirmed]
  /\ swapResult' = swapResult
  /\ Rerender
  /\ UNCHANGED <<providerVars, deriveVars, swapVars, transportVars>>

NextStatus ==
  \/ \E result \in {NoResult} \cup ClassicResults \cup UniswapXResults : SetSwapResult(result)
  \/ \E result \in ClassicResults : TrackerAdd(result)
  \/ \E result \in UniswapXResults : LimitOrderAdd(result)
  \/ \E i \in 1..Cardinality(Hashes) : TrackerUpdate(i)

InitStatus == SwapIdle /\ StatusIdle /\ TransportIdle /\ DeriveIdle /\ ProvidersIdle

SpecStatus == InitStatus /\ [][NextStatus]_vars

--------------------------------------------------------------------------
(* orderedTransportUrls *)

Urls == {"a", "b", "c"}
\* What an http list may hold: a URL, or a falsy entry.
Falsy == ""
Entries == Urls \cup {Falsy}
TierSet == {TierNames[k] : k \in DOMAIN TierNames}

\* chain.rpcUrls.<tier>?.http ?? []
HttpOf(tier) == IF tier.defined THEN tier.http ELSE <<>>

\* filter(Boolean)
FilterBoolean(s) == SelectSeq(s, LAMBDA u : u # Falsy)

\* Array.from(new Set(s)): each value once, at the place of its first occurrence.
RECURSIVE ArrayFromSet(_)
ArrayFromSet(s) ==
  IF s = <<>> THEN <<>>
  ELSE LET front == ArrayFromSet(SubSeq(s, 1, Len(s) - 1))
           last == s[Len(s)]
       IN IF \E i \in DOMAIN front : front[i] = last THEN front ELSE Append(front, last)

\* orderedTransportUrls spreading the default tier before the interface tier.
orderedTransportUrls_DefaultFirst(chain) ==
  LET orderedRpcUrls ==
        HttpOf(chain.rpcUrls["default"]) \o HttpOf(chain.rpcUrls["interface"])
        \o HttpOf(chain.rpcUrls["public"]) \o HttpOf(chain.rpcUrls["fallback"])
  IN ArrayFromSet(FilterBoolean(orderedRpcUrls))

orderedTransportUrls(chain) ==
  LET orderedRpcUrls ==
        HttpOf(chain.rpcUrls["interface"]) \o HttpOf(chain.rpcUrls["default"])
        \o HttpOf(chain.rpcUrls["public"]) \o HttpOf(chain.rpcUrls["fallback"])
  IN ArrayFromSet(FilterBoolean(orderedRpcUrls))

\* Entries of the rpcUrls of the chain, over its tiers.
RpcUrlCount == Len(HttpOf(chainInfo.rpcUrls["interface"])) + Len(HttpOf(chainInfo.rpcUrls["default"]))
               + Len(HttpOf(chainInfo.rpcUrls["public"])) + Len(HttpOf(chainInfo.rpcUrls["fallback"]))

\* The chain metadata names a tier (with no URL yet).
DefineTier(t) ==
  /\ ~resolved
  /\ ~chainInfo.rpcUrls[t].defined
  /\ chainInfo' = [chainInfo EXCEPT !.rpcUrls[t].defined = TRUE]
  /\ UNCHANGED <<providerVars, deriveVars, swapVars, store, statusVars, transportUrls, resolved, request, attempts,
                 hookCalls, requestsMade>>

\* The chain metadata lists one more entry in a tier.
AddRpcUrl(t, u) ==
  /\ ~resolved
  /\ chainInfo.rpcUrls[t].defined
  /\ RpcUrlCount < MaxRpcUrls
  /\ chainInfo' = [chainInfo EXCEPT !.rpcUrls[t].http = Append(@, u)]
  /\ UNCHANGED <<providerVars, deriveVars, swapVars, store, statusVars, transportUrls, resolved, request, attempts,
                 hookCalls, requestsMade>>

\* orderedTransportUrls(chain) is called.
Resolve ==
  /\ ~resolved
  /\ transportUrls' = orderedTransportUrls(chainInfo)
  /\ resolved' = TRUE
  /\ UNCHANGED <<providerVars, deriveVars, swapVars, store, statusVars, chainInfo, request, attempts, hookCalls,
                 requestsMade>>

NextResolver ==
  \/ \E t \in TierSet : DefineTier(t)
  \/ \E t \in TierSet, u \in Entries : AddRpcUrl(t, u)
  \/ Resolve

InitResolver == SwapIdle /\ StatusIdle /\ TransportIdle /\ DeriveIdle /\ ProvidersIdle

SpecResolver == InitResolver /\ [][NextResolver]_vars

--------------------------------------------------------------------------
(* createWagmiConfig: the fallback transport of a client, defaultOnFetchResponse *)

TestnetChains == {SepoliaId}
isTestnetChain(chainId) == chainId \in TestnetChains

Statuses == {200, 203, 500}
\* What a fetch can come back with; an endpoint that cannot be reached gives NoResponse.
Responses == [received : {TRUE}, status : Statuses, wellFormed : BOOLEAN]

\* defaultOnFetchResponse logging an error whatever the chain.
defaultOnFetchResponse_AlwaysError(response, chainId, url) ==
  IF response.status # 200
    THEN [logged |-> <<[level |-> "error", chainId |-> chainId, url |-> url]>>,
          thrown |-> FALSE]
    ELSE [logged |-> <<>>, thrown |-> FALSE]

\* defaultOnFetchResponse: what it hands to the logger, and whether it throws.
defaultOnFetchResponse(response, chainId, url) ==
  IF response.status # 200
    THEN IF isTestnetChain(chainId)
           THEN [logged |-> <<[level |-> "warn", chainId |-> chainId, url |-> url]>>,
                 thrown |-> FALSE]
           ELSE [logged |-> <<[level |-> "error", chainId |-> chainId, url |-> url]>>,
                 thrown |-> FALSE]
    ELSE [logged |-> <<>>, thrown |-> FALSE]

\* The hook of every transport bound to the first URL of the list.
HttpOnFetchResponse_FirstUrl(urls, i, chainId, response) ==
  LET hook == defaultOnFetchResponse(response, chainId, urls[1])
  IN [chainId |-> chainId, url |-> urls[1], status |-> response.status,
      logged |-> hook.logged, thrown |-> hook.thrown]

\* http(url, { onFetchResponse: (response) => onFetchResponse(response, chain, url) })
\* for the i-th URL of the list: the call of the hook for a response.
HttpOnFetchResponse(urls, i, chainId, response) ==
  LET hook == defaultOnFetchResponse(response, chainId, urls[i])
  IN [chainId |-> chainId, url |-> urls[i], status |-> response.status,
      logged |-> hook.logged, thrown |-> hook.thrown]

\* Whether the http transport takes a response for the answer.
Accepted(response) == response.status \in 200..299 /\ response.wellFormed

\* fallback: after a failure of endpoint i, the next endpoint, or the end.
AfterFailure(i) ==
  IF i < Len(transportUrls)
    THEN [state |-> "pending", next |-> i + 1, response |-> NoResponse]
    ELSE [state |-> "failed", next |-> i, response |-> NoResponse]

\* A request is made through the client's transport.
Request ==
  /\ request.state \in {"idle", "ok", "failed"}
  /\ requestsMade < MaxRequests
  /\ requestsMade' = requestsMade + 1
  /\ request' = IF transportUrls = <<>>
                  THEN [state |-> "failed", next |-> 0, response |-> NoResponse]
                  ELSE [state |-> "pending", next |-> 1, response |-> NoResponse]
  /\ attempts' = <<>>
  /\ hookCalls' = <<>>
  /\ UNCHANGED <<providerVars, deriveVars, swapVars, store, statusVars, chainInfo, transportUrls, resolved>>

\* FetchFails giving the failure of the endpoint to the caller at once.
FetchFails_Surfaced ==
  /\ request.state = "pending"
  /\ attempts' = Append(attempts, [url |-> transportUrls[request.next], response |-> NoResponse])
  /\ request' = [state |-> "failed", next |-> request.next, response |-> NoResponse]
  /\ UNCHANGED <<providerVars, deriveVars, swapVars, store, statusVars, chainInfo, transportUrls, resolved,
                 hookCalls, requestsMade>>

\* The endpoint tried cannot be reached: no response, no call of the hook.
FetchFails ==
  /\ request.state = "pending"
  /\ attempts' = Append(attempts, [url |-> transportUrls[request.next], response |-> NoResponse])
  /\ request' = AfterFailure(request.next)
  /\ UNCHANGED <<providerVars, deriveVars, swapVars, store, statusVars, chainInfo, transportUrls, resolved, hookCalls,
                 requestsMade>>

\* The endpoint tried responds: the hook is called, then the response is taken or not.
FetchResponds(response) ==
  /\ request.state = "pending"
  /\ LET call == HttpOnFetchResponse(transportUrls, request.next, chainInfo.id, response)
     IN /\ hookCalls' = Append(hookCalls, call)
        /\ attempts' = Append(attempts, [url |-> transportUrls[request.next],
                                         response |-> response])
        /\ request' = IF ~call.thrown /\ Accepted(response)
                        THEN [state |-> "ok", next |-> request.next, response |-> response]
                        ELSE AfterFailure(request.next)
  /\ UNCHANGED <<providerVars, deriveVars, swapVars, store, statusVars, chainInfo, transportUrls, resolved, requestsMade>>

NextTransport ==
  \/ Request
  \/ FetchFails
  \/ \E response \in Responses : FetchResponds(response)

\* The chains clients are made for here.
ClientTiers ==
  {NoTier} \cup {[defined |-> TRUE, http |-> h] :
                   h \in {<<>>, <<"a">>, <<"a", "b">>, <<"b", Falsy>>, <<"c">>}}
ClientChainInfos ==
  {[id |-> id, rpcUrls |-> [NoRpcUrls EXCEPT !["interface"] = i, !["default"] = d]] :
     id \in {MainnetId, SepoliaId}, i \in ClientTiers, d \in ClientTiers}

\* client({ chain }) has run: the transports are those of orderedTransportUrls(chain).
InitTransport ==
  /\ SwapIdle
  /\ StatusIdle
  /\ DeriveIdle
  /\ ProvidersIdle
  /\ chainInfo \in ClientChainInfos
  /\ transportUrls = orderedTransportUrls(chainInfo)
  /\ resolved = TRUE
  /\ request = IdleRequest
  /\ attempts = <<>>
  /\ hookCalls = <<>>
  /\ requestsMade = 0

SpecTransport == InitTransport /\ [][NextTransport]_vars

--------------------------------------------------------------------------
(* getUniversalRouterFeeFields, the options of the classic primitive, swapInfo *)

ExactInput == "EXACT_INPUT"
ExactOutput == "EXACT_OUTPUT"

\* Raw amounts of a trade, and the range the amounts derived from them lie in.
Amounts == {0, 7, 500, 1000}
AmountRange == 0..2000
\* Percent values, as <<numerator, denominator>>: 0%, 0.5%, 1%, 50%.
Slippages == {<<0, 1>>, <<50, 10000>>, <<1, 100>>, <<1, 2>>}
\* trade.swapFee: none, or { percent, amount (a decimal string), recipient }.
SwapFees ==
  {NoSwapFee,
   <<[percent |-> <<25, 10000>>, amount |-> "15", recipient |-> "0xFee"]>>,
   <<[percent |-> <<1, 100>>, amount |-> "0", recipient |-> "0xPortal"]>>}
TradeProps ==
  {NoTradeProps} \cup
  [variant : {ClassicTrade, DutchTrade, LimitTrade}, tradeType : {ExactInput, ExactOutput},
   inputAmount : Amounts, outputAmount : Amounts, swapFee : SwapFees]
PropsSet ==
  [trade : TradeProps, allowedSlippage : Slippages, permitSignature : {Undefined, "permit"}]

\* BigNumber.from(s) for a decimal string.
BigNumberFrom(s) == CHOOSE n \in AmountRange : ToString(n) = s

\* getUniversalRouterFeeFields giving the percentage shape whatever the trade type.
getUniversalRouterFeeFields_AlwaysPercent(trade) ==
  IF ~isClassicTrade(trade.variant) THEN <<>>
  ELSE IF trade.swapFee = NoSwapFee THEN <<>>
  ELSE <<[key |-> "feeOptions", fee |-> trade.swapFee[1].percent,
          recipient |-> trade.swapFee[1].recipient]>>

\* The fields the function returns, to be spread into the options: none for
\* undefined, else the one field feeOptions or flatFeeOptions.
getUniversalRouterFeeFields(trade) ==
  IF ~isClassicTrade(trade.variant) THEN <<>>
  ELSE IF trade.swapFee = NoSwapFee THEN <<>>
  ELSE IF trade.tradeType = ExactInput
    THEN <<[key |-> "feeOptions", fee |-> trade.swapFee[1].percent,
            recipient |-> trade.swapFee[1].recipient]>>
    ELSE <<[key |-> "flatFeeOptions", amount |-> BigNumberFrom(trade.swapFee[1].amount),
            recipient |-> trade.swapFee[1].recipient]>>

\* The argument of useUniversalRouterSwapCallback.
universalRouterArgs(p) ==
  [trade |-> IF classicTradeArg(p.trade.variant) # NoTrade THEN p.trade ELSE NoTradeProps,
   options |-> [slippageTolerance |-> p.allowedSlippage, permit |-> p.permitSignature,
                feeFields |-> getUniversalRouterFeeFields(p.trade)]]

\* trade.minimumAmountOut(slippage).quotient for an exact-input trade:
\* outputAmount / (1 + slippage), rounded down.
minimumAmountOut(trade, slippage) ==
  (trade.outputAmount * slippage[2]) \div (slippage[2] + slippage[1])
\* trade.maximumAmountIn(slippage).quotient for an exact-output trade:
\* inputAmount * (1 + slippage), rounded down.
maximumAmountIn(trade, slippage) ==
  (trade.inputAmount * (slippage[2] + slippage[1])) \div slippage[2]

\* swapInfoOf recording the expected output as the minimum output.
swapInfoOf_NoSlippage(trade, allowedSlippage, resultType) ==
  [type |-> "swap", isUniswapXOrder |-> resultType \in {UniswapX, UniswapXv2},
   tradeType |-> trade.tradeType,
   inputCurrencyAmountRaw |->
     IF trade.tradeType = ExactInput THEN ToString(trade.inputAmount) ELSE Undefined,
   expectedOutputCurrencyAmountRaw |->
     IF trade.tradeType = ExactInput THEN ToString(trade.outputAmount) ELSE Undefined,
   minimumOutputCurrencyAmountRaw |->
     IF trade.tradeType = ExactInput THEN ToString(trade.outputAmount) ELSE Undefined,
   maximumInputCurrencyAmountRaw |->
     IF trade.tradeType = ExactInput THEN Undefined ELSE ToString(trade.inputAmount),
   outputCurrencyAmountRaw |->
     IF trade.tradeType = ExactInput THEN Undefined ELSE ToString(trade.outputAmount),
   expectedInputCurrencyAmountRaw |->
     IF trade.tradeType = ExactInput THEN Undefined ELSE ToString(trade.inputAmount)]

\* const swapInfo: the amounts as decimal strings; a field the branch taken does
\* not set is Undefined.
swapInfoOf(trade, allowedSlippage, resultType) ==
  [type |-> "swap", isUniswapXOrder |-> resultType \in {UniswapX, UniswapXv2},
   tradeType |-> trade.tradeType,
   inputCurrencyAmountRaw |->
     IF trade.tradeType = ExactInput THEN ToString(trade.inputAmount) ELSE Undefined,
   expectedOutputCurrencyAmountRaw |->
     IF trade.tradeType = ExactInput THEN ToString(trade.outputAmount) ELSE Undefined,
   minimumOutputCurrencyAmountRaw |->
     IF trade.tradeType = ExactInput
       THEN ToString(minimumAmountOut(trade, allowedSlippage)) ELSE Undefined,
   maximumInputCurrencyAmountRaw |->
     IF trade.tradeType = ExactInput
       THEN Undefined ELSE ToString(maximumAmountIn(trade, allowedSlippage)),
   outputCurrencyAmountRaw |->
     IF trade.tradeType = ExactInput THEN Undefined ELSE ToString(trade.outputAmount),
   expectedInputCurrencyAmountRaw |->
     IF trade.tradeType = ExactInput THEN Undefined ELSE ToString(trade.inputAmount)]

\* The hook renders: the arguments of the classic primitive are computed.
RenderHook ==
  /\ routerArgs = <<>>
  /\ routerArgs' = <<universalRouterArgs(props)>>
  /\ UNCHANGED <<providerVars, swapVars, store, statusVars, transportVars, props, swapInfo>>

\* The callback, past its submission, builds swapInfo for a result of type resultType.
BuildSwapInfo(resultType) ==
  /\ routerArgs # <<>>
  /\ swapInfo = <<>>
  /\ props.trade.variant # NoTrade
  /\ resultType \in (IF isUniswapXTrade(props.trade.variant)
                       THEN {UniswapX, UniswapXv2} ELSE {Classic})
  /\ swapInfo' = <<swapInfoOf(props.trade, props.allowedSlippage, resultType)>>
  /\ UNCHANGED <<providerVars, swapVars, store, statusVars, transportVars, props, routerArgs>>

NextDerive ==
  \/ RenderHook
  \/ \E resultType \in {Classic, UniswapX, UniswapXv2} : BuildSwapInfo(resultType)

InitDerive ==
  /\ SwapIdle
  /\ StatusIdle
  /\ TransportIdle
  /\ ProvidersIdle
  /\ props \in PropsSet
  /\ routerArgs = <<>>
  /\ swapInfo = <<>>

SpecDerive == InitDerive /\ [][NextDerive]_vars

--------------------------------------------------------------------------
(* clientToProvider *)

\* The chainId argument: undefined, 0, the id of a chain.
ChainIdArgs == {None, <<0>>, <<1>>, <<5>>}
ClientArgs == {None} \cup {<<client>> : client \in Clients}

\* const network: that of the client's chain, else that of a truthy chainId, else none.
network(client, chainId) ==
  IF client.chain # None
    THEN <<[chainId |-> client.chain[1].id, name |-> client.chain[1].name,
            ensAddress |-> client.chain[1].ensRegistry]>>
  ELSE IF chainId # None /\ chainId[1] # 0
    THEN <<[chainId |-> chainId[1], name |-> "Unsupported", ensAddress |-> Undefined]>>
  ELSE None

\* new Web3Provider(transport, network); instance tells one object from another.
Web3Provider(instance, transport, net) ==
  [instance |-> instance, transport |-> transport, network |-> net]

\* clientToProvider constructing a provider at every call.
clientToProvider_NoCache(client, chainId, cache, instance) ==
  IF client = None THEN [returned |-> None, providers |-> cache]
  ELSE IF network(client[1], chainId) = None THEN [returned |-> None, providers |-> cache]
  ELSE LET provider ==
             Web3Provider(instance, client[1].transport, network(client[1], chainId)[1])
       IN [returned |-> <<provider>>, providers |-> [cache EXCEPT ![client[1]] = <<provider>>]]

\* clientToProvider(client, chainId) with the WeakMap as cache: what it returns
\* and the WeakMap after it; instance is the object a construction would make.
clientToProvider(client, chainId, cache, instance) ==
  IF client = None THEN [returned |-> None, providers |-> cache]
  ELSE IF network(client[1], chainId) = None THEN [returned |-> None, providers |-> cache]
  ELSE IF cache[client[1]] # None
    THEN [returned |-> cache[client[1]], providers |-> cache]
  ELSE LET provider ==
             Web3Provider(instance, client[1].transport, network(client[1], chainId)[1])
       IN [returned |-> <<provider>>, providers |-> [cache EXCEPT ![client[1]] = <<provider>>]]

\* clientToProvider is called.
CallClientToProvider(client, chainId) ==
  LET instance == Len(built) + 1
      r == clientToProvider(client, chainId, providers, instance)
      constructed == r.returned # None /\ r.returned[1].instance = instance
  IN /\ providers' = r.providers
     /\ built' = IF constructed
                   THEN Append(built, [client |-> client[1], chainId |-> chainId,
                                       provider |-> r.returned[1]])
                   ELSE built
     /\ lastCall' = [client |-> client, chainId |-> chainId, before |-> <<providers>>,
                     returned |-> r.returned]
     /\ UNCHANGED <<deriveVars, swapVars, store, statusVars, transportVars>>

NextProviders ==
  \E client \in ClientArgs, chainId \in ChainIdArgs : CallClientToProvider(client, chainId)

InitProviders ==
  /\ SwapIdle
  /\ StatusIdle
  /\ TransportIdle
  /\ DeriveIdle
  /\ ProvidersIdle

SpecProviders == InitProviders /\ [][NextProviders]_vars

--------------------------------------------------------------------------
(* What an invocation did, read off its log *)

Count(s, e) == Cardinality({i \in DOMAIN s : s[i] = e})
SwitchRequests(c) == Count(calls[c].log, "selectChain")
Submissions(c) == Count(calls[c].log, "classic") + Count(calls[c].log, "uniswapX")
Adds(c) == Count(calls[c].log, "add")
Appends(c) == Count(calls[c].log, "append")
\* The records of the store that come from invocation c.
StoredBy(c) == {i \in DOMAIN store : store[i].id = HashOf(c)}
NoSideEffect(c) ==
  SwitchRequests(c) = 0 /\ Submissions(c) = 0 /\ Adds(c) = 0 /\ Appends(c) = 0
  /\ StoredBy(c) = {}

PreconditionErrors == {MissingTrade, WalletNotConnected, MissingChain, UnsupportedChainFamily}

--------------------------------------------------------------------------
(* Claims *)

\* C1: an invocation that does not pass one of the first four checks fails with
\* one of the four precondition errors (MissingTrade when there is no trade) and
\* makes no chain-switch request, no submission call and no record write.
C1_PreconditionFailureHasNoSideEffect ==
  \A c \in Calls :
    calls[c].failing # {} =>
      /\ calls[c].pc = "failed"
      /\ calls[c].err \in PreconditionErrors
      /\ ("trade" \in calls[c].failing => calls[c].err = MissingTrade)
      /\ NoSideEffect(c)

C1_Witness ==
  \E c \in Calls :
    "trade" \in calls[c].failing /\ calls[c].pc = "failed" /\ calls[c].err = MissingTrade

\* C2: an invocation that passes the four checks while the connected chain is
\* not the chain of the swap makes exactly one chain-switch request, which has
\* completed before a submission primitive is called; when the switch yields
\* nothing the invocation fails with ChainSwitchFailed, with no submission and
\* no record write.
SwitchDone(c) == Count(calls[c].log, "selectChain done") = 1
C2_OneSwitchBeforeSubmission ==
  \A c \in Calls :
    (calls[c].pc # "idle" /\ calls[c].failing = {} /\ calls[c].mismatch) =>
      /\ SwitchRequests(c) = 1
      /\ calls[c].log[1] = "selectChain"
      /\ \A i \in DOMAIN calls[c].log :
           calls[c].log[i] \in {"classic", "uniswapX"} =>
             \E j \in 1..(i - 1) : calls[c].log[j] = "selectChain done"
      /\ (SwitchDone(c) /\ calls[c].correctChain = Undefined) =>
           /\ calls[c].pc = "failed"
           /\ calls[c].err = ChainSwitchFailed
           /\ Submissions(c) = 0 /\ Adds(c) = 0 /\ Appends(c) = 0 /\ StoredBy(c) = {}

C2_Witness ==
  /\ \E c \in Calls :
       calls[c].mismatch /\ calls[c].pc = "failed" /\ calls[c].err = ChainSwitchFailed
  /\ \E c \in Calls :
       calls[c].mismatch /\ SwitchDone(c) /\ Submissions(c) = 1

\* C3: the checks are made in the order trade, wallet, chain, family, switch:
\* the failure reported is that of the first check, in this order, that the
\* inputs do not pass, and the chain switch is not requested; inputs that pass
\* the four checks never end in one of their failures.
CheckOrder == <<"trade", "wallet", "chain", "family">>
ErrorOfCheck(k) ==
  CASE k = "trade" -> MissingTrade
    [] k = "wallet" -> WalletNotConnected
    [] k = "chain" -> MissingChain
    [] k = "family" -> UnsupportedChainFamily
FirstFailing(failing) ==
  CheckOrder[CHOOSE i \in DOMAIN CheckOrder :
               /\ CheckOrder[i] \in failing
               /\ \A j \in 1..(i - 1) : CheckOrder[j] \notin failing]
C3_FirstFailingCheckIsReported ==
  \A c \in Calls :
    /\ calls[c].failing # {} =>
         /\ calls[c].err = ErrorOfCheck(FirstFailing(calls[c].failing))
         /\ SwitchRequests(c) = 0
    /\ calls[c].failing = {} => calls[c].err \notin PreconditionErrors

C3_Witness ==
  /\ \E c \in Calls :
       calls[c].failing = {"trade", "wallet", "chain"} /\ calls[c].err = MissingTrade
  /\ \E c \in Calls :
       calls[c].failing = {"wallet", "family"} /\ calls[c].err = WalletNotConnected

\* C4: the record of a successful invocation follows the result: a classic
\* result gives one add to the tracking subsystem and no append; an off-chain
\* result of a limit order gives one append (Pending, Submitted) and no add; an
\* off-chain result of another trade gives neither.
C4_RecordFollowsResultVariant ==
  \A c \in Calls :
    calls[c].pc = "done" =>
      IF calls[c].result.type = Classic
        THEN /\ Adds(c) = 1 /\ Appends(c) = 0
             /\ Cardinality(StoredBy(c)) = 1
             /\ \A i \in StoredBy(c) : store[i].routing = "CLASSIC"
      ELSE IF calls[c].trade = LimitTrade
        THEN /\ Adds(c) = 0 /\ Appends(c) = 1
             /\ Cardinality(StoredBy(c)) = 1
             /\ \A i \in StoredBy(c) :
                  /\ store[i].routing = "DUTCH_LIMIT"
                  /\ store[i].status = Pending
                  /\ store[i].queueStatus = "submitted"
      ELSE Adds(c) = 0 /\ Appends(c) = 0 /\ StoredBy(c) = {}

C4_Witness ==
  \E c, d \in Calls :
    /\ calls[c].pc = "done" /\ calls[c].trade = LimitTrade /\ Appends(c) = 1
    /\ calls[d].pc = "done" /\ calls[d].trade = DutchTrade
    /\ calls[d].result.type = UniswapXv2 /\ StoredBy(d) = {}

\* C5: under every interleaving the records written never outnumber the
\* submissions that succeeded, an invocation writes at most one record and only
\* after its submission succeeded, and a record in the store is never changed
\* or removed by a step.
Succeeded(c) == Count(calls[c].log, "submit ok")
C5_WritesBounded ==
  /\ \A c \in Calls :
       /\ Adds(c) + Appends(c) <= Succeeded(c)
       /\ Cardinality(StoredBy(c)) <= Succeeded(c)
       /\ Succeeded(c) <= Submissions(c)
  /\ Len(store) <= Cardinality({c \in Calls : Succeeded(c) = 1})
C5_StoreKept ==
  \A i \in DOMAIN store : i \in DOMAIN store' /\ store'[i] = store[i]
C5_AtMostOneAppendPerSuccess == [](C5_WritesBounded) /\ [][C5_StoreKept]_vars

C5_Witness ==
  /\ Len(store) = NumCalls
  /\ \A c \in Calls : calls[c].pc = "done"

\* C6: when the submission primitive fails, the caller gets that very failure,
\* the primitive has been called once, and nothing is written.
C6_SubmissionFailurePropagates ==
  \A c \in Calls :
    Count(calls[c].log, "submit failed") > 0 =>
      /\ calls[c].pc = "failed"
      /\ calls[c].thrown \in SubmitErrors
      /\ calls[c].err = calls[c].thrown
      /\ Submissions(c) = 1
      /\ Adds(c) = 0 /\ Appends(c) = 0 /\ StoredBy(c) = {}

C6_Witness ==
  \E c \in Calls :
    /\ calls[c].pc = "failed" /\ calls[c].err = "user rejected signature"
    /\ Submissions(c) = 1

\* C7: the status lookup returns a status exactly when the result is classic and
\* the store holds a record under its transaction hash, and then that record's
\* status; for any other result it returns undefined, whatever the store holds,
\* also a record under the result's order hash.
ClassicMatch == {i \in DOMAIN store : swapResult.type = Classic /\ store[i].id = swapResult.hash}
C7_StatusOnlyForRecordedClassic ==
  /\ ClassicMatch # {} => \E i \in ClassicMatch : status = store[i].status
  /\ ClassicMatch = {} => status = Undefined
  /\ swapResult.type # Classic => status = Undefined
  /\ status # Undefined <=> ClassicMatch # {}

C7_Witness ==
  /\ swapResult.type \in {UniswapX, UniswapXv2}
  /\ \E i \in DOMAIN store : store[i].id = swapResult.orderHash /\ store[i].status = Confirmed
  /\ status = Undefined

\* C8: the URLs orderedTransportUrls returns hold no URL twice and no falsy
\* entry, are exactly the URLs of the four tiers, and stand in the order of their
\* first occurrence reading the tiers interface, default, public, fallback, each
\* tier from its start.
\* The place of the first occurrence of u: the tier first, then the index in it.
Places(u) ==
  {<<k, i>> \in (DOMAIN TierNames) \X (1..MaxRpcUrls) :
     LET h == HttpOf(chainInfo.rpcUrls[TierNames[k]])
     IN i \in DOMAIN h /\ h[i] = u}
Before(p, q) == p[1] < q[1] \/ (p[1] = q[1] /\ p[2] < q[2])
FirstPlace(u) == CHOOSE p \in Places(u) : \A q \in Places(u) : q = p \/ Before(p, q)
C8_UniqueUrlsInTierOrder ==
  resolved =>
    /\ \A i, j \in DOMAIN transportUrls : i # j => transportUrls[i] # transportUrls[j]
    /\ \A i \in DOMAIN transportUrls : transportUrls[i] # Falsy
    /\ {transportUrls[i] : i \in DOMAIN transportUrls} = {u \in Urls : Places(u) # {}}
    /\ \A i, j \in DOMAIN transportUrls :
         i < j => Before(FirstPlace(transportUrls[i]), FirstPlace(transportUrls[j]))

C8_Witness ==
  /\ resolved
  /\ Len(transportUrls) = 2
  /\ \E t \in TierSet : \E i \in DOMAIN chainInfo.rpcUrls[t].http :
       chainInfo.rpcUrls[t].http[i] = Falsy
  /\ \E u \in Urls : \E p, q \in Places(u) : p[1] < q[1]
  /\ ~chainInfo.rpcUrls["default"].defined

\* The attempts of the request that came back with a response.
Responded == SelectSeq(attempts, LAMBDA a : a.response.received)
\* The request went through the endpoints 1..Len(attempts), in the order of the list.
TriedInOrder ==
  /\ Len(attempts) <= Len(transportUrls)
  /\ \A i \in DOMAIN attempts : attempts[i].url = transportUrls[i]
\* The request ended well on its last attempt, after failures of all the others.
EndedOnLast ==
  /\ attempts # <<>>
  /\ request.response = attempts[Len(attempts)].response
  /\ Accepted(request.response)
  /\ \A i \in 1..(Len(attempts) - 1) :
       ~(attempts[i].response.received /\ Accepted(attempts[i].response))

\* C9 as stated: when the first K endpoints fail and endpoint K+1 succeeds, the
\* request returns the response of endpoint K+1 and the hook has been called
\* exactly K+1 times, once per endpoint tried, each call with the chain and the
\* URL of that endpoint; the endpoints after K+1 are not tried.
C9_Original ==
  request.state = "ok" =>
    /\ TriedInOrder
    /\ EndedOnLast
    /\ Len(hookCalls) = Len(attempts)
    /\ \A i \in DOMAIN hookCalls :
         hookCalls[i].chainId = chainInfo.id /\ hookCalls[i].url = transportUrls[i]

\* C9 amended: when the first K endpoints fail and endpoint K+1 succeeds, the
\* request returns the response of endpoint K+1, the endpoints after K+1 are not
\* tried, and the hook has been called once for each endpoint tried that came
\* back with a response (K+1 times at most, and for endpoint K+1 always), in the
\* order tried, each call with the chain and the URL of that endpoint.
C9_HookOncePerResponse ==
  request.state = "ok" =>
    /\ TriedInOrder
    /\ EndedOnLast
    /\ Len(hookCalls) = Len(Responded)
    /\ Len(hookCalls) >= 1 /\ Len(hookCalls) <= Len(attempts)
    /\ \A i \in DOMAIN hookCalls :
         /\ hookCalls[i].chainId = chainInfo.id
         /\ hookCalls[i].url = Responded[i].url
         /\ hookCalls[i].status = Responded[i].response.status

C9_Witness ==
  /\ request.state = "ok"
  /\ Len(transportUrls) = 3
  /\ Len(attempts) = 3
  /\ ~attempts[1].response.received
  /\ attempts[2].response.received
  /\ Len(hookCalls) = 2
  /\ hookCalls[2].url = transportUrls[3]

\* C10: a call of the hook for a response whose status is not 200 logs exactly
\* one diagnostic with the chain id and the URL, a warning if the chain is a
\* test network and an error otherwise; for status 200 it logs nothing; the hook
\* never throws, and a response the transport accepts ends the request well
\* whatever was logged.
C10_DiagnosticByChainClass ==
  /\ \A i \in DOMAIN hookCalls :
       /\ ~hookCalls[i].thrown
       /\ hookCalls[i].status = 200 => hookCalls[i].logged = <<>>
       /\ hookCalls[i].status # 200 =>
            hookCalls[i].logged =
              <<[level |-> IF chainInfo.id \in TestnetChains THEN "warn" ELSE "error",
                 chainId |-> chainInfo.id, url |-> hookCalls[i].url]>>
  /\ \A i \in DOMAIN attempts :
       (attempts[i].response.received /\ Accepted(attempts[i].response)) =>
         /\ i = Len(attempts)
         /\ request.state = "ok"
         /\ request.response = attempts[i].response

C10_Witness ==
  /\ chainInfo.id = SepoliaId
  /\ request.state = "ok"
  /\ request.response.status = 203
  /\ Len(hookCalls) = 2
  /\ hookCalls[1].status = 500 /\ hookCalls[1].logged[1].level = "warn"
  /\ hookCalls[2].status = 203 /\ hookCalls[2].logged[1].level = "warn"

\* C12: the fee fields derived for a trade are at most one of the two shapes:
\* none when the trade is not classic or has no fee; for a classic exact-input
\* trade with a fee, feeOptions with the fee's percentage and recipient; for a
\* classic exact-output trade with a fee, flatFeeOptions with the fee's amount as
\* a number and the recipient.
FeeFields == routerArgs[1].options.feeFields
C12_OneFeeShapeByTradeType ==
  routerArgs # <<>> =>
    LET trade == props.trade
        hasFee == trade.variant = ClassicTrade /\ trade.swapFee # NoSwapFee
    IN /\ Len(FeeFields) <= 1
       /\ ~hasFee => FeeFields = <<>>
       /\ (hasFee /\ trade.tradeType = ExactInput) =>
            /\ Len(FeeFields) = 1
            /\ FeeFields[1] = [key |-> "feeOptions", fee |-> trade.swapFee[1].percent,
                               recipient |-> trade.swapFee[1].recipient]
       /\ (hasFee /\ trade.tradeType = ExactOutput) =>
            /\ Len(FeeFields) = 1
            /\ FeeFields[1].key = "flatFeeOptions"
            /\ DOMAIN FeeFields[1] = {"key", "amount", "recipient"}
            /\ ToString(FeeFields[1].amount) = trade.swapFee[1].amount
            /\ FeeFields[1].recipient = trade.swapFee[1].recipient

C12_Witness ==
  /\ routerArgs # <<>>
  /\ props.trade.variant = ClassicTrade
  /\ props.trade.tradeType = ExactOutput
  /\ props.trade.swapFee # NoSwapFee
  /\ FeeFields = <<[key |-> "flatFeeOptions", amount |-> 15, recipient |-> "0xFee"]>>

\* C13: the swapInfo of an exact-input trade carries the input amount, the
\* expected output amount and a minimum output that is the expected output
\* lowered by the slippage tolerance (the greatest m with m * (1 + slippage) <=
\* output; 495 for output 500 at 1%), so never above the expected output; that of
\* an exact-output trade carries the output amount, the expected input amount and
\* a maximum input that is the expected input raised by the slippage tolerance
\* (the greatest m with m <= input * (1 + slippage)), so never below the expected
\* input.
C13_AmountsWithinSlippage ==
  swapInfo # <<>> =>
    LET info == swapInfo[1]
        trade == props.trade
        num == props.allowedSlippage[1]
        den == props.allowedSlippage[2]
    IN /\ info.tradeType = trade.tradeType
       /\ trade.tradeType = ExactInput =>
            /\ info.inputCurrencyAmountRaw = ToString(trade.inputAmount)
            /\ info.expectedOutputCurrencyAmountRaw = ToString(trade.outputAmount)
            /\ \E m \in AmountRange :
                 /\ info.minimumOutputCurrencyAmountRaw = ToString(m)
                 /\ m <= trade.outputAmount
                 /\ m * (den + num) <= trade.outputAmount * den
                 /\ (m + 1) * (den + num) > trade.outputAmount * den
            /\ info.maximumInputCurrencyAmountRaw = Undefined
       /\ trade.tradeType = ExactOutput =>
            /\ info.outputCurrencyAmountRaw = ToString(trade.outputAmount)
            /\ info.expectedInputCurrencyAmountRaw = ToString(trade.inputAmount)
            /\ \E m \in AmountRange :
                 /\ info.maximumInputCurrencyAmountRaw = ToString(m)
                 /\ m >= trade.inputAmount
                 /\ m * den <= trade.inputAmount * (den + num)
                 /\ (m + 1) * den > trade.inputAmount * (den + num)
            /\ info.minimumOutputCurrencyAmountRaw = Undefined

C13_Witness ==
  /\ swapInfo # <<>>
  /\ props.trade.tradeType = ExactInput
  /\ props.trade.inputAmount = 1000 /\ props.trade.outputAmount = 500
  /\ props.allowedSlippage = <<1, 100>>
  /\ swapInfo[1].inputCurrencyAmountRaw = "1000"
  /\ swapInfo[1].expectedOutputCurrencyAmountRaw = "500"
  /\ swapInfo[1].minimumOutputCurrencyAmountRaw = "495"

\* C11: a request tries the endpoints one at a time in the order of
\* orderedTransportUrls(chain): the endpoint in flight is the one after those
\* tried, and all those tried before it have failed; a failure is not given to
\* the caller while an endpoint is left; the request fails exactly when every
\* endpoint of the list has been tried and has failed.
AttemptFailed(a) == ~(a.response.received /\ Accepted(a.response))
C11_SequentialFailover ==
  /\ transportUrls = orderedTransportUrls(chainInfo)
  /\ TriedInOrder
  /\ \A i \in 1..(Len(attempts) - 1) : AttemptFailed(attempts[i])
  /\ request.state = "pending" =>
       /\ request.next = Len(attempts) + 1
       /\ request.next <= Len(transportUrls)
       /\ \A i \in DOMAIN attempts : AttemptFailed(attempts[i])
  /\ request.state = "failed" <=>
       /\ request.state # "idle"
       /\ Len(attempts) = Len(transportUrls)
       /\ \A i \in DOMAIN attempts : AttemptFailed(attempts[i])

C11_Witness ==
  /\ request.state = "failed"
  /\ Len(transportUrls) = 3
  /\ Len(attempts) = 3
  /\ ~attempts[1].response.received
  /\ attempts[2].response.received /\ attempts[2].response.status = 500
  /\ attempts[3].response.received /\ ~attempts[3].response.wellFormed

\* C14 as stated: when selectChain has resolved without yielding the chain of
\* the swap (with nothing, or with another chain), the invocation fails with
\* ChainSwitchFailed and calls no submission primitive.
C14_Original ==
  \A c \in Calls :
    (SwitchDone(c) /\ calls[c].correctChain # calls[c].swapChainId) =>
      /\ calls[c].pc = "failed"
      /\ calls[c].err = ChainSwitchFailed
      /\ Submissions(c) = 0

PrimitiveFor(trade) == IF trade \in {DutchTrade, LimitTrade} THEN "uniswapX" ELSE "classic"
WriteFor(result, trade) ==
  IF result.type = Classic THEN <<"add">>
  ELSE IF trade = LimitTrade THEN <<"append">>
  ELSE <<>>
C16_ResultReturnedAfterRecord ==
  \A c \in Calls :
    /\ calls[c].pc = "done" =>
         /\ calls[c].result \in ClassicResults \cup UniswapXResults
         /\ calls[c].returned = calls[c].result
         /\ calls[c].log =
              (IF calls[c].mismatch THEN <<"selectChain", "selectChain done">> ELSE <<>>)
              \o <<PrimitiveFor(calls[c].trade), "submit ok">>
              \o WriteFor(calls[c].result, calls[c].trade) \o <<"return">>
         /\ WriteFor(calls[c].result, calls[c].trade) # <<>> => StoredBy(c) # {}
    /\ calls[c].pc # "done" =>
         /\ calls[c].returned = NoResult
         /\ Count(calls[c].log, "return") = 0

C16_Witness ==
  \E c \in Calls :
    /\ calls[c].pc = "done"
    /\ calls[c].trade = LimitTrade
    /\ calls[c].returned.type = UniswapXv2
    /\ calls[c].returned.deadline = DeadlineOf(c)
    /\ calls[c].log =
         <<"selectChain", "selectChain done", "uniswapX", "submit ok", "append", "return">>

\* C17: when the record write of a submission that succeeded fails (the add of
\* a classic result, the append of a limit order), the invocation fails with
\* the failure of the write and returns nothing.
WriteFailed(c) == Succeeded(c) = 1 /\ calls[c].pc = "failed"
C17_RecordWriteFailurePropagates ==
  \A c \in Calls :
    (Succeeded(c) = 1 /\ calls[c].pc # "done") =>
      /\ calls[c].pc = "failed"
      /\ calls[c].err = RecordWriteFailed
      /\ calls[c].returned = NoResult
      /\ Count(calls[c].log, "return") = 0
      /\ calls[c].log[Len(calls[c].log)] = "throw"
      /\ Adds(c) + Appends(c) = 1

C17_Witness ==
  \E c, d \in Calls :
    /\ WriteFailed(c) /\ Adds(c) = 1 /\ calls[c].err = RecordWriteFailed
    /\ WriteFailed(d) /\ Appends(d) = 1 /\ calls[d].err = RecordWriteFailed

\* C18: an invocation that is past its checks (the four preconditions and the
\* chain switch) has called exactly one submission primitive, once: the
\* off-chain one for an off-chain trade, limit orders included, the classic one
\* otherwise; the other primitive was given no trade at render; an invocation
\* that is not past its checks has called none.
PastChecks(c) ==
  /\ calls[c].pc \in {"submitting", "done", "failed"}
  /\ calls[c].failing = {}
  /\ calls[c].err # ChainSwitchFailed
C18_ExactlyOnePrimitiveOnce ==
  \A c \in Calls :
    /\ Count(calls[c].log, "classic") + Count(calls[c].log, "uniswapX") <= 1
    /\ PastChecks(c) =>
         /\ Count(calls[c].log, PrimitiveFor(calls[c].trade)) = 1
         /\ Submissions(c) = 1
         /\ IF calls[c].trade \in {DutchTrade, LimitTrade}
              THEN /\ classicTradeArg(calls[c].trade) = NoTrade
                   /\ uniswapXTradeArg(calls[c].trade) = calls[c].trade
              ELSE /\ uniswapXTradeArg(calls[c].trade) = NoTrade
                   /\ classicTradeArg(calls[c].trade) = calls[c].trade
    /\ ~PastChecks(c) => Submissions(c) = 0

C18_Witness ==
  \E c, d \in Calls :
    /\ PastChecks(c) /\ calls[c].trade = LimitTrade /\ Count(calls[c].log, "uniswapX") = 1
    /\ PastChecks(d) /\ calls[d].trade = ClassicTrade /\ Count(calls[d].log, "classic") = 1

\* C19: the record stored for a limit order that was submitted has the order
\* hash of the result as its id and order hash, the chain of the swap, the
\* address of the wallet, status Pending, origin internal, routing DUTCH_LIMIT,
\* queue status submitted, and the encoded order and the deadline of the result.
C19_LimitOrderRecordFields ==
  \A c \in Calls :
    (calls[c].pc = "done" /\ calls[c].trade = LimitTrade) =>
      /\ Cardinality(StoredBy(c)) = 1
      /\ \A i \in StoredBy(c) :
           store[i] =
             [id |-> calls[c].result.orderHash, orderHash |-> calls[c].result.orderHash,
              chainId |-> calls[c].swapChainId, from |-> calls[c].from,
              status |-> Pending, origin |-> "internal", routing |-> "DUTCH_LIMIT",
              queueStatus |-> "submitted",
              encodedOrder |-> calls[c].result.encodedOrder,
              expiry |-> calls[c].result.deadline]

C19_Witness ==
  \E i \in DOMAIN store :
    /\ store[i].routing = "DUTCH_LIMIT"
    /\ store[i].id = HashOf(NumCalls)
    /\ store[i].encodedOrder = EncodedOrderOf(NumCalls)
    /\ store[i].expiry = DeadlineOf(NumCalls)
    /\ store[i].chainId = ChainA /\ store[i].from = "0xA"

\* C20 as stated: whenever an invocation calls its submission primitive, the
\* wallet is on the chain of the swap, under every interleaving of wallet chain
\* changes and invocations.
C20_Original ==
  [][\A c \in Calls :
       Submissions(c)' > Submissions(c) => walletChain' = calls'[c].swapChainId]_vars

\* The providers constructed for a client.
BuiltFor(client) == {i \in DOMAIN built : built[i].client = client}
\* Whether a network can be determined for the latest call, and the chain of
\* that network: the client's own chain when it has one, else the chainId given.
Determinable ==
  /\ lastCall.client # None
  /\ \/ lastCall.client[1].chain # None
     \/ lastCall.chainId # None /\ lastCall.chainId[1] # 0
NetworkChainOf(client, chainId) ==
  IF client.chain # None THEN client.chain[1].id ELSE chainId[1]
\* At most one provider constructed per client, and the WeakMap holds it; a call
\* for which no network can be determined returns undefined and leaves the
\* WeakMap as it was; any other call returns the provider of the client, over the
\* client's transport: constructed and cached by this call if the client had
\* none, else the one it had.
CacheKept ==
  /\ \A client \in Clients :
       /\ Cardinality(BuiltFor(client)) <= 1
       /\ providers[client] # None <=> BuiltFor(client) # {}
       /\ \A i \in BuiltFor(client) : providers[client] = <<built[i].provider>>
  /\ \A i, j \in DOMAIN built : built[i].provider.instance = built[j].provider.instance => i = j
  /\ (lastCall # NoCall /\ ~Determinable) =>
       /\ lastCall.returned = None
       /\ providers = lastCall.before[1]
  /\ (lastCall # NoCall /\ Determinable) =>
       LET client == lastCall.client[1]
       IN /\ lastCall.returned # None
          /\ lastCall.returned = providers[client]
          /\ lastCall.returned[1].transport = client.transport
          /\ IF lastCall.before[1][client] = None
               THEN /\ providers = [lastCall.before[1] EXCEPT ![client] = lastCall.returned]
                    /\ built[Len(built)].provider = lastCall.returned[1]
               ELSE /\ lastCall.returned = lastCall.before[1][client]
                    /\ providers = lastCall.before[1]

\* C21 as stated: at most one provider per client, constructed and cached by the
\* first call for which a network can be determined and returned by every later
\* one, no provider and no caching for a call without a client or without a
\* network, and the provider a call returns is bound to the network of that
\* call (the client's own chain, else the chainId of the call).
C21_Original ==
  /\ CacheKept
  /\ (lastCall # NoCall /\ Determinable) =>
       lastCall.returned[1].network.chainId =
         NetworkChainOf(lastCall.client[1], lastCall.chainId)

\* C21 amended: as stated, but the provider a call returns is bound to the
\* network of the call that constructed it (the client's own chain, else the
\* chainId of that first call), which is the network of the present call
\* whenever the client has a chain.
C21_OneProviderPerClient ==
  /\ CacheKept
  /\ (lastCall # NoCall /\ Determinable) =>
       LET client == lastCall.client[1]
       IN /\ \A i \in BuiltFor(client) :
               lastCall.returned[1].network.chainId = NetworkChainOf(client, built[i].chainId)
          /\ client.chain # None =>
               /\ lastCall.returned[1].network.chainId = client.chain[1].id
               /\ lastCall.returned[1].network.name = client.chain[1].name
               /\ lastCall.returned[1].network.ensAddress = client.chain[1].ensRegistry

C21_Witness ==
  /\ lastCall.client # None
  /\ lastCall.client[1].chain = None
  /\ lastCall.chainId = <<5>>
  /\ lastCall.before[1][lastCall.client[1]] # None
  /\ lastCall.returned # None
  /\ lastCall.returned[1].network.chainId = 1
  /\ Len(built) = 3

====
